---- MODULE Spec2Model ----
(***************************************************************************)
(* A model of scripts/run_nqueens_benchmarks.py: the N-Queens benchmark    *)
(* harness.  Texts are sequences of one-character strings, so that the     *)
(* regular expression METRIC_PATTERN, str.strip, str.splitlines, int and   *)
(* float are modelled by what they do to characters.                       *)
(***************************************************************************)
EXTENDS Integers, Sequences, FiniteSets, TLC

VARIABLES
    stdout,      \* parse_metrics: the text handed to it
    parsed,      \* parse_metrics: what the call produced (NotCalled before it)
    fs,          \* the build tree: the paths that exist
    xs,          \* the build tree: the paths with an executable bit
    calls,       \* every preparer call so far: what it found, ran and raised
    prep,        \* the preparer called repeatedly (SpecPrep), "" elsewhere
    args,        \* main: the parsed command line (sizes, workers, output)
    old_file,    \* main: what the output path held when the harness started
    pc,          \* main: where it is (prepare, sweep, write, done, failed)
    prepared,    \* main: how many implementations ensure_ready has returned for
    trials,      \* main: every run_implementation call so far
    rows,        \* main: the list rows
    err,         \* main: the exception that reached the __main__ handler
    exit_status, \* the exit status of the harness process (Running before)
    write_args,  \* main: the rows argument of every write_results call
    out_file,    \* the file at the output path
    environ,     \* os.environ of the harness process
    old_environ, \* os.environ as it was when the harness started
    ex_pc,       \* execute_with_metrics step by step: where the harness is
    procs,       \* the helper processes started so far, one per trial
    targets,     \* the target commands started so far, one per helper
    pending,     \* chunks of the helper's message its feeder has yet to write
    pipe,        \* chunks of the message in the pipe of the queue
    ex_log       \* what each finished execute_with_metrics call returned or raised

parseVars == <<stdout, parsed>>

treeVars == <<fs, xs, calls, prep>>

mainVars == <<args, old_file, pc, prepared, trials, rows, err, exit_status,
              write_args, out_file, environ, old_environ>>

execVars == <<ex_pc, procs, targets, pending, pipe, ex_log>>

vars == <<parseVars, treeVars, mainVars, execVars>>

(***************************************************************************)
(* Bounds of the model.                                                    *)
(***************************************************************************)
\* lines of a text handed to parse_metrics on its own
MaxLines == 2

\* successive calls of one preparer
MaxCalls == 2

\* board sizes on the command line
MaxSizes == 2

(***************************************************************************)
(* Characters and character classes of Python's re module.                 *)
(***************************************************************************)
Digits == {"0", "1", "2", "3", "4", "5", "6", "7", "8", "9"}

Whitespace == {" ", "\t", "\n", "\r", "\f"}

LineBreaks == {"\n", "\r", "\f"}

DigitValue(c) ==
    CASE c = "0" -> 0 [] c = "1" -> 1 [] c = "2" -> 2 [] c = "3" -> 3
      [] c = "4" -> 4 [] c = "5" -> 5 [] c = "6" -> 6 [] c = "7" -> 7
      [] c = "8" -> 8 [] c = "9" -> 9

\* membership of character c in the class named cls
InClass(cls, c) ==
    CASE cls = "space"  -> c \in Whitespace          \* \s
      [] cls = "digit"  -> c \in Digits               \* \d
      [] cls = "notn"   -> c # "n"                    \* [^n]
      [] cls = "nots"   -> c # "s"                    \* [^s]
      [] cls = "digdot" -> c \in Digits \cup {"."}    \* [0-9.]

Lit(s) == [k |-> "lit", s |-> s, cls |-> "", min |-> 0, grp |-> 0]

Rep(cls, min, grp) == [k |-> "rep", s |-> <<>>, cls |-> cls, min |-> min, grp |-> grp]

MARKER == <<"N","Q","U","E","E","N","S","_","M","E","T","R","I","C","S">>

\* r"NQUEENS_METRICS\s+[^n]*n=(\d+)\s+[^s]*solutions=([0-9.]+)\s+[^n]*nodes=(\d+)"
METRIC_PATTERN ==
    << Lit(MARKER),
       Rep("space", 1, 0), Rep("notn", 0, 0),
       Lit(<<"n","=">>), Rep("digit", 1, 1),
       Rep("space", 1, 0), Rep("nots", 0, 0),
       Lit(<<"s","o","l","u","t","i","o","n","s","=">>), Rep("digdot", 1, 2),
       Rep("space", 1, 0), Rep("notn", 0, 0),
       Lit(<<"n","o","d","e","s","=">>), Rep("digit", 1, 3) >>

Min(S) == CHOOSE i \in S : \A j \in S : i <= j

Max(S) == CHOOSE i \in S : \A j \in S : j <= i

\* the elements of a set of integers in increasing order
Sorted(S) ==
    [k \in 1..Cardinality(S) |->
        CHOOSE x \in S : Cardinality({y \in S : y < x}) = k - 1]

NoMatch == [ok |-> FALSE, caps |-> <<>>]

\* length of the longest run of characters of class cls in s from position pos
RunLen(cls, s, pos) ==
    LET stops == {i \in pos..Len(s) : ~InClass(cls, s[i])}
    IN IF stops = {} THEN Len(s) + 1 - pos ELSE Min(stops) - pos

HasLit(lit, s, pos) ==
    /\ pos + Len(lit) - 1 <= Len(s)
    /\ \A j \in 1..Len(lit) : s[pos + j - 1] = lit[j]

\* The backtracking matcher of re: pattern items pat[pi..] against s from
\* pos. A repetition is greedy: of the run lengths n from which the rest of
\* the pattern matches, re takes the longest (it tries the longest run first
\* and gives characters back one at a time).
RECURSIVE MatchHere(_, _, _, _, _)
RECURSIVE TryRep(_, _, _, _, _, _)
MatchHere(pat, pi, s, pos, caps) ==
    IF pi > Len(pat) THEN [ok |-> TRUE, caps |-> caps]
    ELSE IF pat[pi].k = "lit"
         THEN IF HasLit(pat[pi].s, s, pos)
              THEN MatchHere(pat, pi + 1, s, pos + Len(pat[pi].s), caps)
              ELSE NoMatch
         ELSE TryRep(pat, pi, s, pos, RunLen(pat[pi].cls, s, pos), caps)

TryRep(pat, pi, s, pos, run, caps) ==
    LET g == pat[pi].grp
        With(n) == IF g = 0 THEN caps
                   ELSE [caps EXCEPT ![g] = SubSeq(s, pos, pos + n - 1)]
        tries == {[n |-> n, r |-> MatchHere(pat, pi + 1, s, pos + n, With(n))] :
                    n \in pat[pi].min..run}
        good == {t \in tries : t.r.ok}
    IN IF good = {} THEN NoMatch
       ELSE (CHOOSE t \in good : \A u \in good : u.n <= t.n).r

\* pattern.search(line): the match at the leftmost position that has one
Search(pat, s) ==
    LET tries == {[i |-> i, r |-> MatchHere(pat, 1, s, i, <<<<>>, <<>>, <<>>>>)] :
                    i \in 1..(Len(s) + 1)}
        good == {t \in tries : t.r.ok}
    IN IF good = {} THEN NoMatch
       ELSE (CHOOSE t \in good : \A u \in good : t.i <= u.i).r

(***************************************************************************)
(* str.strip, str.splitlines, int, float.                                  *)
(***************************************************************************)
\* str.strip(): the text between its first and last non-whitespace character
Strip(s) ==
    LET keep == {i \in 1..Len(s) : s[i] \notin Whitespace}
    IN IF keep = {} THEN <<>> ELSE SubSeq(s, Min(keep), Max(keep))

\* str.splitlines(): a break ends the current line ("\r\n" is one break); the
\* text after the last break is a line only when it is not empty
SplitLines(s) ==
    LET \* the last position of each line break
        ends   == {i \in 1..Len(s) :
                     /\ s[i] \in LineBreaks
                     /\ ~(s[i] = "\r" /\ i < Len(s) /\ s[i + 1] = "\n")}
        e      == Sorted(ends)
        First(i) == IF s[i] = "\n" /\ i > 1 /\ s[i - 1] = "\r" THEN i - 1 ELSE i
        From(k)  == IF k = 1 THEN 1 ELSE e[k - 1] + 1
        broken == [k \in 1..Len(e) |-> SubSeq(s, From(k), First(e[k]) - 1)]
        rest   == SubSeq(s, From(Len(e) + 1), Len(s))
    IN IF rest = <<>> THEN broken ELSE Append(broken, rest)

\* int(digits)
RECURSIVE IntOf(_)
IntOf(ds) ==
    IF ds = <<>> THEN 0
    ELSE 10 * IntOf(SubSeq(ds, 1, Len(ds) - 1)) + DigitValue(ds[Len(ds)])

DotCount(s) == Cardinality({i \in 1..Len(s) : s[i] = "."})

RECURSIVE Pow10(_)
Pow10(k) == IF k = 0 THEN 1 ELSE 10 * Pow10(k - 1)

RECURSIVE DropTrailingZeros(_)
DropTrailingZeros(ds) ==
    IF ds # <<>> /\ ds[Len(ds)] = "0"
    THEN DropTrailingZeros(SubSeq(ds, 1, Len(ds) - 1))
    ELSE ds

\* float(s) for s of digits and dots: a ValueError unless s has at most one
\* dot and at least one digit; else the decimal num / 10^exp, in lowest form
\* (float's binary rounding is not modelled: the values here are short)
FloatOf(s) ==
    IF DotCount(s) > 1 \/ DotCount(s) = Len(s)
    THEN [ok |-> FALSE, num |-> 0, exp |-> 0]
    ELSE LET dot  == IF DotCount(s) = 0 THEN Len(s) + 1
                     ELSE CHOOSE i \in 1..Len(s) : s[i] = "."
             ip   == SubSeq(s, 1, dot - 1)
             fp   == DropTrailingZeros(SubSeq(s, dot + 1, Len(s)))
         IN [ok |-> TRUE, num |-> IntOf(ip) * Pow10(Len(fp)) + IntOf(fp),
             exp |-> Len(fp)]

(***************************************************************************)
(* Exceptions.                                                             *)
(***************************************************************************)
NoExc == [tag |-> "None"]

\* subprocess.CalledProcessError(returncode, cmd, output=..., stderr=...)
CalledProcessError(returncode, cmd, output, stderr) ==
    [tag |-> "CalledProcessError", returncode |-> returncode, cmd |-> cmd,
     output |-> output, stderr |-> stderr]

\* FileNotFoundError / PermissionError of a command that cannot be started,
\* or of a file operation
OSErrorOf(what) == [tag |-> "OSError", what |-> what]

RuntimeError(msg) == [tag |-> "RuntimeError", msg |-> msg]

ValueError(msg) == [tag |-> "ValueError", msg |-> msg]

(***************************************************************************)
(* parse_metrics                                                           *)
(***************************************************************************)
NotCalled == [tag |-> "NotCalled"]

ParseFailure == RuntimeError("Failed to parse NQUEENS_METRICS from program output")

\* the loop of parse_metrics: the match of the last line that has one
RECURSIVE LastMatch(_, _, _)
LastMatch(lines, i, match) ==
    IF i > Len(lines) THEN match
    ELSE LET maybe == Search(METRIC_PATTERN, lines[i])
         IN LastMatch(lines, i + 1, IF maybe.ok THEN maybe ELSE match)

parse_metrics(text) ==
    LET match == LastMatch(SplitLines(Strip(text)), 1, NoMatch)
    IN IF ~match.ok THEN ParseFailure
       ELSE LET solutions == FloatOf(match.caps[2])
            IN IF ~solutions.ok
               THEN ValueError("could not convert string to float")
               ELSE [tag |-> "ok",
                     size |-> IntOf(match.caps[1]),
                     solutions |-> [num |-> solutions.num, exp |-> solutions.exp],
                     nodes |-> IntOf(match.caps[3])]

(***************************************************************************)
(* The build tree: fs is the set of paths that exist, xs the set of paths  *)
(* with an executable bit.  Paths are relative to ROOT.                    *)
(***************************************************************************)
BuddyConfigure == "BuDDy/configure"

BuddyConfigStatus == "BuDDy/config.status"

BuddyLib == "BuDDy/src/libbdd.la"

BuddyExe == "BuDDy/examples/queen/queen"

SylvanBuildDir == "sylvan/build"

SylvanBinary == "sylvan/build/examples/nqueens_fast"

CuddConfigure == "cudd/configure"

CuddConfigStatus == "cudd/config.status"

CuddLib == "cudd/cudd/.libs/libcudd.a"

CuddBinDir == "cudd/bin"

CuddExe == "cudd/bin/nqueens_bdd"

JddGradlew == "jdd/gradlew"

JddClassesFlag == "jdd/build/classes/java/main/jdd/examples/BDDQueens.class"

JSylvanBuildScript == "jsylvan/src/main/c/sylvan-java/build-sylvan.sh"

JSylvanNativeLib == "jsylvan/src/main/resources/linux-x64/libsylvan-java.so"

JSylvanJar == "jsylvan/target/sylvan-1.0.0-SNAPSHOT.jar"

\* the build commands: the argument vector given to run() and its cwd
\* (relative to ROOT); "-jJOBS" stands for f"-j{JOBS}"
Cmd_BuddyConfigure == [cwd |-> "BuDDy", argv |-> <<"./configure">>]

Cmd_BuddyMake == [cwd |-> "BuDDy", argv |-> <<"make">>]

Cmd_BuddyQueen ==
    [cwd |-> "BuDDy", argv |-> <<"make", "-C", "examples/queen", "queen">>]

Cmd_SylvanCmake ==
    [cwd |-> ".",
     argv |-> <<"cmake", "-S", "sylvan", "-B", "sylvan/build", "-DSYLVAN_STATS=ON",
                "-DBUILD_SHARED_LIBS=OFF", "-DCMAKE_BUILD_TYPE=Release">>]

Cmd_SylvanBuild ==
    [cwd |-> ".",
     argv |-> <<"cmake", "--build", "sylvan/build", "--target", "nqueens_fast",
                "-jJOBS">>]

Cmd_CuddConfigure == [cwd |-> "cudd", argv |-> <<"./configure">>]

Cmd_CuddMake ==
    [cwd |-> "cudd",
     argv |-> <<"make", "-jJOBS", "ACLOCAL=true", "AUTOMAKE=true", "AUTOCONF=true",
                "AUTOHEADER=true">>]

Cmd_CuddGcc ==
    [cwd |-> ".",
     argv |-> <<"gcc", "-O3", "-I./cudd", "-I./cudd/cudd", "-I./cudd/mtr",
                "-I./cudd/st", "-I./cudd/util", "-I./cudd/epd",
                "-o", "cudd/bin/nqueens_bdd", "cudd/examples/nqueens_bdd.c",
                "cudd/cudd/.libs/libcudd.a", "-lm">>]

Cmd_JddGradle == [cwd |-> "jdd", argv |-> <<"./gradlew", "--no-daemon", "classes">>]

Cmd_JSylvanNative ==
    [cwd |-> "jsylvan",
     argv |-> <<"./src/main/c/sylvan-java/build-sylvan.sh",
                "https://github.com/trolando/sylvan.git", "v1.4.1">>]

Cmd_JSylvanMvn ==
    [cwd |-> "jsylvan", argv |-> <<"mvn", "-q", "-DskipTests", "package">>]

\* the script a command executes from the tree, "" when it runs an installed tool
ScriptOf(cmd) ==
    CASE cmd = Cmd_BuddyConfigure -> BuddyConfigure
      [] cmd = Cmd_CuddConfigure  -> CuddConfigure
      [] cmd = Cmd_JddGradle      -> JddGradlew
      [] cmd = Cmd_JSylvanNative  -> JSylvanBuildScript
      [] OTHER                    -> ""

\* what a build command that exits 0 leaves in the tree: the contract of the
\* external build systems, "produce an artifact at a known path, or fail
\* non-zero"
Produces(cmd) ==
    CASE cmd = Cmd_BuddyConfigure -> {BuddyConfigStatus}
      [] cmd = Cmd_BuddyMake      -> {BuddyLib}
      [] cmd = Cmd_BuddyQueen     -> {BuddyExe}
      [] cmd = Cmd_SylvanCmake    -> {SylvanBuildDir}
      [] cmd = Cmd_SylvanBuild    -> {SylvanBinary}
      [] cmd = Cmd_CuddConfigure  -> {CuddConfigStatus}
      [] cmd = Cmd_CuddMake       -> {CuddLib}
      [] cmd = Cmd_CuddGcc        -> {CuddExe}
      [] cmd = Cmd_JddGradle      -> {JddClassesFlag}
      [] cmd = Cmd_JSylvanNative  -> {JSylvanNativeLib}
      [] cmd = Cmd_JSylvanMvn     -> {JSylvanJar}

MaxBuildSteps == 4

\* exit codes of an external command: success, failure, killed by SIGKILL
ReturnCodes == {0, 1, -9}

\* the exit codes of the commands one preparer call runs, in the order run
BuildOutcomes == [1..MaxBuildSteps -> ReturnCodes]

(***************************************************************************)
(* run() and the preparers.  A preparer is evaluated over a record         *)
(* [fs, xs, cmds, exc]: the tree, the commands run so far and the          *)
(* exception raised, after which nothing more of the preparer happens.     *)
(***************************************************************************)
\* subprocess.run(..., check=False): the exit code is not looked at
check_ignored(returncode) == FALSE

\* subprocess.run(..., check=True) raises for a non-zero exit code
check_failed(returncode) == returncode # 0

\* run(cmd): subprocess.run(..., check=True); rcs[k] is the exit code of the
\* k-th command of this call
run(st, cmd, rcs) ==
    IF st.exc # NoExc THEN st
    ELSE LET k  == Len(st.cmds) + 1
             sc == ScriptOf(cmd)
         IN IF sc # "" /\ (sc \notin st.fs \/ sc \notin st.xs)
            THEN [st EXCEPT !.exc = OSErrorOf(sc)]
            ELSE IF check_failed(rcs[k])
            THEN [st EXCEPT !.cmds = Append(@, cmd),
                            !.exc = CalledProcessError(rcs[k], cmd.argv, <<>>, <<>>)]
            ELSE [st EXCEPT !.cmds = Append(@, cmd),
                            !.fs = @ \cup Produces(cmd)]

\* if script.exists() and not os.access(script, os.X_OK): script.chmod(... | 0o111)
chmod_x(st, script) ==
    IF st.exc = NoExc /\ script \in st.fs
    THEN [st EXCEPT !.xs = @ \cup {script}]
    ELSE st

mkdir(st, dir) ==
    IF st.exc = NoExc THEN [st EXCEPT !.fs = @ \cup {dir}] ELSE st

ensure_buddy(st, rcs) ==
    LET s1 == chmod_x(st, BuddyConfigure)
        s2 == IF BuddyConfigStatus \notin s1.fs
              THEN run(s1, Cmd_BuddyConfigure, rcs) ELSE s1
        s3 == IF BuddyLib \notin s2.fs THEN run(s2, Cmd_BuddyMake, rcs) ELSE s2
        s4 == IF BuddyExe \notin s3.fs THEN run(s3, Cmd_BuddyQueen, rcs) ELSE s3
    IN run(s4, Cmd_BuddyQueen, rcs)

ensure_sylvan(st, rcs) ==
    IF SylvanBinary \in st.fs THEN st
    ELSE run(run(st, Cmd_SylvanCmake, rcs), Cmd_SylvanBuild, rcs)

ensure_cudd(st, rcs) ==
    LET s1 == IF CuddLib \notin st.fs
              THEN LET a == chmod_x(st, CuddConfigure)
                       b == IF CuddConfigStatus \notin a.fs
                            THEN run(a, Cmd_CuddConfigure, rcs) ELSE a
                   IN run(b, Cmd_CuddMake, rcs)
              ELSE st
    IN IF CuddExe \notin s1.fs
       THEN run(mkdir(s1, CuddBinDir), Cmd_CuddGcc, rcs)
       ELSE s1

\* an ensure_jdd that returns when the wrapper script it would run is missing
ensure_jdd_skip(st, rcs) ==
    IF JddClassesFlag \in st.fs \/ JddGradlew \notin st.fs THEN st
    ELSE run(chmod_x(st, JddGradlew), Cmd_JddGradle, rcs)

ensure_jdd(st, rcs) ==
    IF JddClassesFlag \in st.fs THEN st
    ELSE run(chmod_x(st, JddGradlew), Cmd_JddGradle, rcs)

ensure_jsylvan(st, rcs) ==
    LET s1 == IF JSylvanNativeLib \notin st.fs
              THEN run(chmod_x(st, JSylvanBuildScript), Cmd_JSylvanNative, rcs)
              ELSE st
    IN IF JSylvanJar \notin s1.fs THEN run(s1, Cmd_JSylvanMvn, rcs) ELSE s1

(***************************************************************************)
(* The texts a target command may print (the stdout captured at lines      *)
(* 157-169), built from whitespace-separated tokens.                       *)
(***************************************************************************)
\* str(n) of a natural number
RECURSIVE Str(_)
Str(n) ==
    LET d == CHOOSE c \in Digits : DigitValue(c) = n % 10
    IN IF n < 10 THEN <<d>> ELSE Append(Str(n \div 10), d)

Key_n == <<"n","=">>

Key_solutions == <<"s","o","l","u","t","i","o","n","s","=">>

Key_nodes == <<"n","o","d","e","s","=">>

Tok_TAG == <<"[","o","u","t","]">>

Tok_T1 == <<"t","=","1">>

Tok_ENGINE == <<"e","n","g","i","n","e","=","c","u","d","d">>

Tok_STATUS == <<"s","t","a","t","u","s","=","o","k">>

Tok_RUN == <<"r","u","n","=","1">>

Tok_HELLO == <<"h","e","l","l","o">>

Tok_WORLD == <<"w","o","r","l","d">>

Dec_2_0 == <<"2",".","0">>

Dec_1_2_3 == <<"1",".","2",".","3">>

\* the tokens of a line joined by single blanks
RECURSIVE JoinTokens(_)
JoinTokens(toks) ==
    IF toks = <<>> THEN <<>>
    ELSE IF Len(toks) = 1 THEN toks[1]
    ELSE toks[1] \o <<" ">> \o JoinTokens(Tail(toks))

\* every line ended by a newline, as a program printing lines leaves them
RECURSIVE JoinLines(_)
JoinLines(lines) ==
    IF lines = <<>> THEN <<>>
    ELSE lines[1] \o <<"\n">> \o JoinLines(Tail(lines))

\* a metrics line: the marker, then the three fields, with the token
\* sequences j0..j4 before, between and after them
MetricsLine(j0, j1, n, j2, sol, j3, nodes, j4) ==
    JoinTokens(j0 \o <<MARKER>> \o j1 \o <<Key_n \o n>> \o j2
               \o <<Key_solutions \o sol>> \o j3 \o <<Key_nodes \o nodes>> \o j4)

PlainLine(n, sol, nodes) ==
    MetricsLine(<<>>, <<>>, Str(n), <<>>, Str(sol), <<>>, Str(nodes), <<>>)

\* lines of the metrics grammar
QualifyingLines ==
    { PlainLine(4, 2, 10),
      PlainLine(5, 10, 50),
      MetricsLine(<<Tok_TAG>>, <<Tok_T1>>, Str(4), <<>>, Dec_2_0, <<Tok_T1>>,
                  Str(12), <<Tok_T1>>),
      MetricsLine(<<>>, <<Tok_ENGINE>>, Str(4), <<>>, Str(2), <<>>, Str(11), <<>>),
      MetricsLine(<<>>, <<>>, Str(5), <<Tok_STATUS>>, Str(10), <<>>, Str(51), <<>>),
      MetricsLine(<<>>, <<>>, Str(5), <<>>, Str(10), <<Tok_RUN>>, Str(52), <<>>) }

\* lines outside it: unrelated text, an empty line, a missing field, fields
\* out of order, a solutions value that is no decimal
OtherLines ==
    { JoinTokens(<<Tok_HELLO, Tok_WORLD>>),
      <<>>,
      JoinTokens(<<MARKER, Key_n \o Str(4), Key_solutions \o Str(2)>>),
      JoinTokens(<<MARKER, Key_nodes \o Str(10), Key_solutions \o Str(2),
                   Key_n \o Str(4)>>),
      MetricsLine(<<>>, <<>>, Str(4), <<>>, Dec_1_2_3, <<>>, Str(10), <<>>) }

LinePool == QualifyingLines \cup OtherLines

RECURSIVE SeqsUpTo(_, _)
SeqsUpTo(S, n) ==
    IF n = 0 THEN {<<>>}
    ELSE LET shorter == SeqsUpTo(S, n - 1)
         IN shorter \cup {Append(q, x) : q \in shorter, x \in S}

Texts == {JoinLines(ls) : ls \in SeqsUpTo(LinePool, MaxLines)}

(***************************************************************************)
(* The metrics grammar as the specification words it: a line of            *)
(* whitespace-separated tokens holding the marker token and after it, in   *)
(* order, an n=<integer>, a solutions=<decimal> and a nodes=<integer>      *)
(* token.                                                                  *)
(***************************************************************************)
Tokens(line) ==
    LET Blank(i) == i < 1 \/ i > Len(line) \/ line[i] \in Whitespace
        starts == Sorted({i \in 1..Len(line) : ~Blank(i) /\ Blank(i - 1)})
        EndOf(i) == Min({j \in i..Len(line) : Blank(j + 1)})
    IN [k \in 1..Len(starts) |-> SubSeq(line, starts[k], EndOf(starts[k]))]

IsInteger(v) == v # <<>> /\ \A i \in 1..Len(v) : v[i] \in Digits

IsDecimal(v) ==
    /\ v # <<>>
    /\ \A i \in 1..Len(v) : v[i] \in Digits \cup {"."}
    /\ DotCount(v) <= 1
    /\ DotCount(v) < Len(v)

FieldValue(tok, key) == SubSeq(tok, Len(key) + 1, Len(tok))

IsField(tok, key) == Len(tok) > Len(key) /\ SubSeq(tok, 1, Len(key)) = key

IsIntField(tok, key) == IsField(tok, key) /\ IsInteger(FieldValue(tok, key))

IsDecField(tok, key) == IsField(tok, key) /\ IsDecimal(FieldValue(tok, key))

\* the first index of hits after position from, or 0 when there is none
FirstAfter(hits, from) ==
    LET later == {i \in hits : i > from}
    IN IF later = {} THEN 0 ELSE Min(later)

\* whether the line is of the grammar, and the triple it embeds
Embedded(line) ==
    LET t  == Tokens(line)
        ix == 1..Len(t)
        m  == FirstAfter({i \in ix : t[i] = MARKER}, 0)
        a  == IF m = 0 THEN 0
              ELSE FirstAfter({i \in ix : IsIntField(t[i], Key_n)}, m)
        b  == IF a = 0 THEN 0
              ELSE FirstAfter({i \in ix : IsDecField(t[i], Key_solutions)}, a)
        c  == IF b = 0 THEN 0
              ELSE FirstAfter({i \in ix : IsIntField(t[i], Key_nodes)}, b)
    IN IF c = 0 THEN [ok |-> FALSE]
       ELSE LET f == FloatOf(FieldValue(t[b], Key_solutions))
            IN [ok |-> TRUE,
                triple |-> [tag |-> "ok",
                            size |-> IntOf(FieldValue(t[a], Key_n)),
                            solutions |-> [num |-> f.num, exp |-> f.exp],
                            nodes |-> IntOf(FieldValue(t[c], Key_nodes))]]

\* the lines of a text that are of the grammar, in text order
QualifyingOf(text) ==
    SelectSeq(SplitLines(text), LAMBDA l : Embedded(l).ok)

(***************************************************************************)
(* Environments: functions from variable names to values.  The value of a  *)
(* search path is the sequence of its ":"-separated entries.               *)
(***************************************************************************)
\* an environment without variables
NoEnv == [name \in {} |-> <<>>]

\* os.environ.get(name, ''): '' is a search path with one empty entry
environ_get(env, name) == IF name \in DOMAIN env THEN env[name] ELSE <<"">>

\* the environments the harness may be started in
Ambients ==
    {[name \in {"PATH"} |-> <<"/usr/bin">>],
     [name \in {"PATH", "LD_LIBRARY_PATH"} |->
        IF name = "PATH" THEN <<"/usr/bin">> ELSE <<"/opt/lib">>]}

\* the extra_env of each implementation, built when main builds the list
\* from the os.environ of that moment; self.extra_env = extra_env or {}
extra_env(name, ambient) ==
    CASE name = "BuDDy" ->
           [v \in {"LD_LIBRARY_PATH"} |->
              <<"BuDDy/src/.libs">> \o environ_get(ambient, "LD_LIBRARY_PATH")]
      [] name = "Sylvan" ->
           [v \in {"LD_LIBRARY_PATH"} |->
              <<"sylvan/build/src">> \o environ_get(ambient, "LD_LIBRARY_PATH")]
      [] OTHER -> NoEnv

\* dict.update: the entries of extra replace or extend those of env
update(env, extra) ==
    [v \in DOMAIN env \cup DOMAIN extra |->
        IF v \in DOMAIN extra THEN extra[v] ELSE env[v]]

\* a base_env that updates os.environ itself
base_env_in_place(extra, ambient) ==
    [env |-> update(ambient, extra), environ |-> update(ambient, extra)]

\* Implementation.base_env: the environment it returns and the os.environ
\* it leaves; env is a copy, so the update does not reach os.environ
base_env(extra, ambient) ==
    [env |-> update(ambient, extra), environ |-> ambient]

(***************************************************************************)
(* The implementations registered in main, in registration order.          *)
(***************************************************************************)
Implementations ==
    << [name |-> "BuDDy",   language |-> "C",    preparer |-> "ensure_buddy",
        workdir |-> ".",       artifact |-> BuddyExe],
       [name |-> "Sylvan",  language |-> "C",    preparer |-> "ensure_sylvan",
        workdir |-> ".",       artifact |-> SylvanBinary],
       [name |-> "CUDD",    language |-> "C",    preparer |-> "ensure_cudd",
        workdir |-> ".",       artifact |-> CuddExe],
       [name |-> "JDD",     language |-> "Java", preparer |-> "ensure_jdd",
        workdir |-> "jdd",     artifact |-> JddClassesFlag],
       [name |-> "JSylvan", language |-> "Java", preparer |-> "ensure_jsylvan",
        workdir |-> "jsylvan", artifact |-> JSylvanJar] >>

ImplByName(name) ==
    CHOOSE impl \in {Implementations[i] : i \in 1..Len(Implementations)} :
        impl.name = name

\* Implementation.command_for: the command_builder lambdas
command_for(impl, size, workers) ==
    CASE impl.name = "BuDDy"   -> <<BuddyExe, ToString(size)>>
      [] impl.name = "Sylvan"  -> <<SylvanBinary, "-w", ToString(workers), ToString(size)>>
      [] impl.name = "CUDD"    -> <<CuddExe, ToString(size)>>
      [] impl.name = "JDD"     -> <<"java", "-cp", "build/classes/java/main",
                                    "jdd.examples.BDDQueens", ToString(size)>>
      [] impl.name = "JSylvan" -> <<"java", "-cp", "target/sylvan-1.0.0-SNAPSHOT.jar",
                                    "jsylvan.examples.JSylvanNQueens",
                                    "-w", ToString(workers), ToString(size)>>

\* Implementation.ensure_ready: the preparer registered for impl
ensure_ready(impl, st, rcs) ==
    CASE impl.preparer = "ensure_buddy"   -> ensure_buddy(st, rcs)
      [] impl.preparer = "ensure_sylvan"  -> ensure_sylvan(st, rcs)
      [] impl.preparer = "ensure_cudd"    -> ensure_cudd(st, rcs)
      [] impl.preparer = "ensure_jdd"     -> ensure_jdd(st, rcs)
      [] impl.preparer = "ensure_jsylvan" -> ensure_jsylvan(st, rcs)

\* one preparer call on the tree (tree, exec): the state it leaves and its
\* entry in the log of calls (codes: the exit codes of the commands it ran)
PreparerCall(impl, tree, exec, rcs) ==
    LET st == ensure_ready(impl, [fs |-> tree, xs |-> exec, cmds |-> <<>>,
                                  exc |-> NoExc], rcs)
    IN [st |-> st,
        entry |-> [impl |-> impl.name, pre |-> tree, cmds |-> st.cmds,
                   codes |-> [j \in 1..Len(st.cmds) |-> rcs[j]],
                   exc |-> st.exc, post |-> st.fs]]

\* the paths a preparer looks at or makes
PathsOf(name) ==
    CASE name = "BuDDy"   -> {BuddyConfigure, BuddyConfigStatus, BuddyLib, BuddyExe}
      [] name = "Sylvan"  -> {SylvanBuildDir, SylvanBinary}
      [] name = "CUDD"    -> {CuddConfigure, CuddConfigStatus, CuddLib, CuddExe}
      [] name = "JDD"     -> {JddGradlew, JddClassesFlag}
      [] name = "JSylvan" -> {JSylvanBuildScript, JSylvanNativeLib, JSylvanJar}

Scripts == {BuddyConfigure, CuddConfigure, JddGradlew, JSylvanBuildScript}

\* the libraries a preparer makes sure of besides its terminal artifact
Prerequisites(name) ==
    CASE name = "BuDDy"   -> {BuddyLib}
      [] name = "CUDD"    -> {CuddLib}
      [] name = "JSylvan" -> {JSylvanNativeLib}
      [] OTHER            -> {}

ImplNames == {Implementations[i].name : i \in 1..Len(Implementations)}

(***************************************************************************)
(* Values the unused parts of the state hold.                              *)
(***************************************************************************)
Running == -1

NoFile == [exists |-> FALSE, lines |-> <<>>]

IdleParse == stdout = <<>> /\ parsed = NotCalled

IdleTree == fs = {} /\ xs = {} /\ calls = <<>> /\ prep = ""

IdleMain ==
    /\ args = [sizes |-> <<>>, workers |-> 0, output_in_root |-> TRUE]
    /\ old_file = NoFile
    /\ pc = "idle"
    /\ prepared = 0
    /\ trials = <<>>
    /\ rows = <<>>
    /\ err = NoExc
    /\ exit_status = Running
    /\ write_args = <<>>
    /\ out_file = NoFile
    /\ environ = NoEnv
    /\ old_environ = NoEnv

IdleExec ==
    /\ ex_pc = "idle"
    /\ procs = <<>>
    /\ targets = <<>>
    /\ pending = 0
    /\ pipe = 0
    /\ ex_log = <<>>

(***************************************************************************)
(* parse_metrics applied to each text: SpecParse                           *)
(***************************************************************************)
InitParse ==
    /\ stdout \in Texts
    /\ parsed = NotCalled
    /\ IdleTree
    /\ IdleMain
    /\ IdleExec

ParseCall ==
    /\ parsed = NotCalled
    /\ parsed' = parse_metrics(stdout)
    /\ UNCHANGED <<stdout, treeVars, mainVars, execVars>>

NextParse == ParseCall

SpecParse == InitParse /\ [][NextParse]_vars

(***************************************************************************)
(* One preparer called again and again on a build tree: SpecPrep           *)
(***************************************************************************)
InitPrep ==
    /\ prep \in ImplNames
    /\ fs \in SUBSET PathsOf(prep)
    /\ xs \in SUBSET (fs \cap Scripts)
    /\ calls = <<>>
    /\ IdleParse
    /\ IdleMain
    /\ IdleExec

PrepCall ==
    /\ prep # ""
    /\ Len(calls) < MaxCalls
    /\ \E rcs \in BuildOutcomes :
         \E c \in {PreparerCall(ImplByName(prep), fs, xs, rcs)} :
            /\ fs' = c.st.fs
            /\ xs' = c.st.xs
            /\ calls' = Append(calls, c.entry)
    /\ UNCHANGED <<prep, parseVars, mainVars, execVars>>

NextPrep == PrepCall

SpecPrep == InitPrep /\ [][NextPrep]_vars

(***************************************************************************)
(* execute_with_metrics, run_implementation, write_results                 *)
(***************************************************************************)
\* What one measured run does, as execute_with_metrics sees it: the exit
\* code of the helper process, whether the helper put its message on the
\* queue, and the message.
Outcome(helper_exit, queued, returncode, out, errtext) ==
    [helper_exit |-> helper_exit, queued |-> queued, returncode |-> returncode,
     stdout |-> out, stderr |-> errtext, elapsed |-> 3, max_rss |-> 2048]

\* an execute_with_metrics that does not look at the helper's exit code
helper_check_off(exitcode) == FALSE

\* if not process.exitcode == 0
helper_failed(exitcode) == ~(exitcode = 0)

\* execute_with_metrics after process.join(): the exception it raises, or
\* the message it returns
execute_with_metrics(cmd, oc) ==
    IF helper_failed(oc.helper_exit)
    THEN [exc |-> RuntimeError("Measurement helper failed")]
    ELSE IF ~oc.queued
    THEN [exc |-> RuntimeError("Measurement helper returned no data")]
    ELSE [exc |-> NoExc,
          result |-> [returncode |-> oc.returncode, stdout |-> oc.stdout,
                      stderr |-> oc.stderr, elapsed |-> oc.elapsed,
                      max_rss |-> oc.max_rss, cmd |-> cmd]]

NoRow == [implementation |-> ""]

SizeMismatch(name, measured, size) ==
    [tag |-> "RuntimeError", msg |-> "Implementation reported another size",
     impl |-> name, reported |-> measured, expected |-> size]

\* if result["returncode"] != 0
run_failed_positive(returncode) == returncode > 0

run_failed(returncode) == returncode # 0

\* if measured_size != size
size_guard_off(measured_size, size) == FALSE

size_guard(measured_size, size) == measured_size # size

\* run_implementation: the exception it raises or the row it returns, the
\* texts it handed to parse_metrics and what parse_metrics made of them
run_implementation(impl, size, workers, oc) ==
    LET cmd == command_for(impl, size, workers)
        ex  == execute_with_metrics(cmd, oc)
    IN IF ex.exc # NoExc
       THEN [exc |-> ex.exc, row |-> NoRow, parse_args |-> <<>>,
             metrics |-> NotCalled]
       ELSE IF run_failed(ex.result.returncode)
       THEN [exc |-> CalledProcessError(ex.result.returncode, ex.result.cmd,
                                        ex.result.stdout, ex.result.stderr),
             row |-> NoRow, parse_args |-> <<>>, metrics |-> NotCalled]
       ELSE LET m == CHOOSE v \in {parse_metrics(ex.result.stdout)} : TRUE
                called == [parse_args |-> <<ex.result.stdout>>, metrics |-> m]
            IN IF m.tag # "ok"
               THEN [exc |-> m, row |-> NoRow] @@ called
               ELSE IF size_guard(m.size, size)
               THEN [exc |-> SizeMismatch(impl.name, m.size, size), row |-> NoRow]
                    @@ called
               ELSE [exc |-> NoExc,
                     row |-> [implementation |-> impl.name,
                              language |-> impl.language,
                              size |-> size,
                              time_sec |-> ex.result.elapsed,
                              max_rss_kb |-> ex.result.max_rss,
                              nodes |-> m.nodes,
                              solutions |-> m.solutions]] @@ called

fieldnames ==
    <<"implementation", "language", "size", "time_sec", "max_rss_kb", "nodes",
      "solutions">>

\* writer.writeheader()
HeaderLine == [kind |-> "header", cols |-> fieldnames, row |-> NoRow]

\* the lines csv.DictWriter writes for a table: the header, then one per
\* row, its values in the order of fieldnames
TableLines(table) ==
    <<HeaderLine>>
    \o [k \in 1..Len(table) |-> [kind |-> "row", cols |-> fieldnames, row |-> table[k]]]

\* where a write_results call can fail: creating the results directory,
\* opening the output path, an I/O error while the table is written or
\* flushed (kept: how many lines reached the file)
WriteFaults(table) ==
    {[at |-> "none", kept |-> 0], [at |-> "mkdir", kept |-> 0],
     [at |-> "open", kept |-> 0]}
    \cup {[at |-> "write", kept |-> j] : j \in 0..Len(TableLines(table))}

\* write_results: the file it leaves at the output path and what it raises.
\* open(path, "w") truncates the file in place before anything is written;
\* the last line prints output_path.relative_to(ROOT), a ValueError for a
\* path that is not under ROOT.
write_results(table, file, in_root, fault) ==
    LET full == [exists |-> TRUE, lines |-> TableLines(table)]
    IN CASE fault.at = "mkdir" ->
              [file |-> file, exc |-> OSErrorOf("results")]
         [] fault.at = "open" ->
              [file |-> file, exc |-> OSErrorOf("output")]
         [] fault.at = "write" ->
              [file |-> [exists |-> TRUE,
                         lines |-> SubSeq(TableLines(table), 1, fault.kept)],
               exc |-> OSErrorOf("output")]
         [] OTHER ->
              [file |-> full,
               exc |-> IF in_root THEN NoExc
                       ELSE ValueError("output path is not in the subpath of ROOT")]

\* sys.exit(code): the exit status the operating system reports
sys_exit(code) == code % 256

\* the handlers of __main__
ExitStatusOf(exc) ==
    IF exc.tag = "CalledProcessError" THEN sys_exit(exc.returncode) ELSE sys_exit(1)

(***************************************************************************)
(* What the measured programs do.                                          *)
(***************************************************************************)
SizeSet == {4, 5}

Solutions(n) == CASE n = 4 -> 2 [] n = 5 -> 10 [] OTHER -> 4

\* the node count implementation number i reports for size n
Nodes(i, n) == 10 * n + i

ImplIndex(name) == CHOOSE i \in 1..Len(Implementations) : Implementations[i].name = name

\* the output of a healthy run: each program prints in its own way
GoodStdout(i, n) ==
    LET final == PlainLine(n, Solutions(n), Nodes(i, n))
    IN CASE i = 2 -> JoinLines(<<JoinTokens(<<Tok_HELLO, Tok_WORLD>>), final>>)
         [] i = 3 -> JoinLines(<<PlainLine(n, 0, 1), final>>)
         [] i = 4 -> JoinLines(<<MetricsLine(<<Tok_TAG>>, <<Tok_T1>>, Str(n), <<>>,
                                             Str(Solutions(n)) \o <<".", "0">>,
                                             <<Tok_T1>>, Str(Nodes(i, n)), <<>>)>>)
         [] OTHER -> JoinLines(<<final>>)

ErrText == <<"f", "a", "i", "l", "e", "d", "\n">>

\* everything a run of implementation i on size n may turn out to be
TargetOutcomes(i, n) ==
    {Outcome(0, TRUE, 0, GoodStdout(i, n), <<>>)}
    \cup {Outcome(0, TRUE, rc, out, ErrText) :
            rc \in ReturnCodes \ {0}, out \in {<<>>, GoodStdout(i, n)}}
    \cup {Outcome(0, TRUE, 0, out, <<>>) :
            out \in {<<>>,
                     JoinLines(<<JoinTokens(<<Tok_HELLO, Tok_WORLD>>)>>),
                     JoinLines(<<PlainLine(n + 1, Solutions(n + 1), Nodes(i, n + 1))>>)}}
    \cup {Outcome(1, FALSE, 0, <<>>, <<>>), Outcome(0, FALSE, 0, <<>>, <<>>)}

(***************************************************************************)
(* main and the __main__ handlers: Spec                                    *)
(***************************************************************************)
\* a build tree as a checkout leaves it, and one with everything built
FreshTree == Scripts

BuiltTree ==
    UNION {PathsOf(name) : name \in ImplNames} \cup {CuddBinDir}

\* terminal artifacts present, the libraries behind them gone
StaleTree == BuiltTree \ {BuddyLib, CuddLib, JSylvanNativeLib}

OldTable ==
    [exists |-> TRUE,
     lines |-> TableLines(<<[implementation |-> "BuDDy", language |-> "C",
                             size |-> 4, time_sec |-> 1, max_rss_kb |-> 1024,
                             nodes |-> 41, solutions |-> [num |-> 2, exp |-> 0]]>>)]

Init ==
    /\ \E t \in {FreshTree, BuiltTree, StaleTree} :
          /\ fs = t
          /\ xs = t \cap Scripts
    /\ calls = <<>>
    /\ prep = ""
    /\ args \in [sizes : SeqsUpTo(SizeSet, MaxSizes) \ {<<>>}, workers : {0},
                 output_in_root : BOOLEAN]
    /\ old_file \in {NoFile, OldTable}
    /\ out_file = old_file
    /\ pc = "prepare"
    /\ prepared = 0
    /\ trials = <<>>
    /\ rows = <<>>
    /\ err = NoExc
    /\ exit_status = Running
    /\ write_args = <<>>
    /\ environ \in Ambients
    /\ old_environ = environ
    /\ IdleParse
    /\ IdleExec

\* a loop body that caught the exception and went on to the next pass
SkipAndContinue(exc, next_pc) == next_pc

\* main has no try/except: an exception raised inside a loop leaves main
Propagate(exc, next_pc) == IF exc # NoExc THEN "failed" ELSE next_pc

\* an exception that left main reaches the handlers of __main__
Handled(exc) ==
    /\ err' = exc
    /\ exit_status' = IF exc # NoExc THEN ExitStatusOf(exc) ELSE exit_status

\* a sweep that starts as soon as the first preparer has returned
AfterPrepareFirst(n) == "sweep"

\* the loop of line 324 ends after the last implementation; only then does
\* main reach the loops of the sweep
AfterPrepare(n) == IF n = Len(Implementations) THEN "sweep" ELSE "prepare"

\* for impl in implementations: impl.ensure_ready()
Prepare ==
    /\ pc = "prepare"
    /\ \E rcs \in BuildOutcomes :
         \E c \in {PreparerCall(Implementations[prepared + 1], fs, xs, rcs)} :
            /\ fs' = c.st.fs
            /\ xs' = c.st.xs
            /\ calls' = Append(calls, c.entry)
            /\ prepared' = IF c.st.exc = NoExc THEN prepared + 1 ELSE prepared
            /\ pc' = Propagate(c.st.exc, AfterPrepare(prepared + 1))
            /\ Handled(c.st.exc)
    /\ UNCHANGED <<prep, parseVars, args, old_file, trials, rows, write_args, out_file,
                   environ, old_environ, execVars>>

TotalTrials == Len(args.sizes) * Len(Implementations)

\* the nested loops the other way round: implementations outside, sizes inside
LoopVarsImplOuter(k) ==
    [size |-> args.sizes[((k - 1) % Len(args.sizes)) + 1],
     impl |-> Implementations[((k - 1) \div Len(args.sizes)) + 1]]

\* the loop variables of the k-th pass through the body of
\* "for size in args.sizes: for impl in implementations:"
LoopVars(k) ==
    [size |-> args.sizes[((k - 1) \div Len(Implementations)) + 1],
     impl |-> Implementations[((k - 1) % Len(Implementations)) + 1]]

\* rows.append(run_implementation(impl, size, args.workers))
Trial ==
    /\ pc = "sweep"
    /\ Len(trials) < TotalTrials
    /\ LET k    == Len(trials) + 1
           size == LoopVars(k).size
           impl == LoopVars(k).impl
           b    == base_env(extra_env(impl.name, old_environ), environ)
       IN \E oc \in TargetOutcomes(ImplIndex(impl.name), size) :
            \E r \in {run_implementation(impl, size, args.workers, oc)} :
               /\ trials' = Append(trials,
                     [size |-> size, impl |-> impl.name, outcome |-> oc,
                      exc |-> r.exc, parse_args |-> r.parse_args,
                      metrics |-> r.metrics, env |-> b.env])
               /\ environ' = b.environ
               /\ rows' = IF r.exc = NoExc THEN Append(rows, r.row) ELSE rows
               /\ pc' = Propagate(r.exc, IF k = TotalTrials THEN "write" ELSE "sweep")
               /\ Handled(r.exc)
    /\ UNCHANGED <<treeVars, parseVars, args, old_file, prepared, write_args, out_file,
                   old_environ, execVars>>

\* write_results(rows, args.output), then main returns
WriteResults ==
    /\ pc = "write"
    /\ \E fault \in WriteFaults(rows) :
         \E w \in {write_results(rows, out_file, args.output_in_root, fault)} :
            /\ write_args' = Append(write_args, rows)
            /\ out_file' = w.file
            /\ pc' = Propagate(w.exc, "done")
            /\ err' = w.exc
            /\ exit_status' = IF w.exc # NoExc THEN ExitStatusOf(w.exc) ELSE sys_exit(0)
    /\ UNCHANGED <<treeVars, parseVars, args, old_file, prepared, trials, rows,
                   environ, old_environ, execVars>>

Next == Prepare \/ Trial \/ WriteResults

Spec == Init /\ [][Next]_vars

(***************************************************************************)
(* The sweep with execute_with_metrics step by step: SpecExec.  The helper *)
(* process (mp.Process running worker), the target command it runs and the *)
(* feeder thread of the queue take their steps between those of the        *)
(* harness.  The message put on the queue is counted in chunks; the pipe   *)
(* of the queue holds PipeCapacity of them.                                *)
(***************************************************************************)
\* what the pipe under an mp.Queue buffers before a write to it blocks
PipeCapacity == 2

\* the largest message a helper puts on the queue, in chunks
MaxChunks == 3

InitExec ==
    /\ args \in [sizes : SeqsUpTo(SizeSet, MaxSizes) \ {<<>>}, workers : {0},
                 output_in_root : {TRUE}]
    /\ old_file = NoFile
    /\ pc = "idle"
    /\ prepared = 0
    /\ trials = <<>>
    /\ rows = <<>>
    /\ err = NoExc
    /\ exit_status = Running
    /\ write_args = <<>>
    /\ out_file = NoFile
    /\ environ = NoEnv
    /\ old_environ = NoEnv
    /\ ex_pc = "loop"
    /\ procs = <<>>
    /\ targets = <<>>
    /\ pending = 0
    /\ pipe = 0
    /\ ex_log = <<>>
    /\ IdleParse
    /\ IdleTree

\* the trial the harness is in: the index of the helper started last
Current == Len(procs)

\* queue = mp.Queue(); process = mp.Process(target=worker); process.start()
Start ==
    /\ ex_pc = "loop"
    /\ Current < TotalTrials
    /\ procs' = Append(procs, [at |-> "start", exitcode |-> Running])
    /\ targets' = Append(targets, [state |-> "none", returncode |-> Running])
    /\ pending' = 0
    /\ pipe' = 0
    /\ ex_pc' = "join"
    /\ UNCHANGED <<ex_log, parseVars, treeVars, mainVars>>

\* worker: subprocess.run starts the target command
WorkerRun ==
    /\ Current > 0
    /\ procs[Current].at = "start"
    /\ procs' = [procs EXCEPT ![Current].at = "run"]
    /\ targets' = [targets EXCEPT ![Current].state = "running"]
    /\ UNCHANGED <<ex_pc, pending, pipe, ex_log, parseVars, treeVars, mainVars>>

\* worker: subprocess.run cannot start the command (FileNotFoundError,
\* PermissionError); the exception ends the helper with exit code 1
WorkerSpawnFails ==
    /\ Current > 0
    /\ procs[Current].at = "start"
    /\ procs' = [procs EXCEPT ![Current] = [at |-> "exited", exitcode |-> 1]]
    /\ UNCHANGED <<ex_pc, targets, pending, pipe, ex_log, parseVars, treeVars,
                   mainVars>>

\* a target command comes to its end
TargetExit ==
    \E k \in 1..Len(targets) :
        /\ targets[k].state = "running"
        /\ \E rc \in ReturnCodes :
             targets' = [targets EXCEPT ![k] = [state |-> "exited", returncode |-> rc]]
        /\ UNCHANGED <<ex_pc, procs, pending, pipe, ex_log, parseVars, treeVars,
                       mainVars>>

\* subprocess.run returns when the command it started has exited
waited(target) == target.state = "exited"

\* worker: subprocess.run returns; elapsed and usage are taken
WorkerWait ==
    /\ Current > 0
    /\ procs[Current].at = "run"
    /\ waited(targets[Current])
    /\ procs' = [procs EXCEPT ![Current].at = "put"]
    /\ UNCHANGED <<ex_pc, targets, pending, pipe, ex_log, parseVars, treeVars,
                   mainVars>>

\* worker: queue.put(message) hands the message to the feeder thread of the
\* queue and returns; its size is that of the captured stdout and stderr
WorkerPut ==
    /\ Current > 0
    /\ procs[Current].at = "put"
    /\ procs' = [procs EXCEPT ![Current].at = "flush"]
    /\ \E n \in 1..MaxChunks : pending' = n
    /\ UNCHANGED <<ex_pc, targets, pipe, ex_log, parseVars, treeVars, mainVars>>

\* the feeder thread writes the next chunk while the pipe has room for it
FeederWrite ==
    /\ Current > 0
    /\ procs[Current].at = "flush"
    /\ pending > 0
    /\ pipe < PipeCapacity
    /\ pending' = pending - 1
    /\ pipe' = pipe + 1
    /\ UNCHANGED <<ex_pc, procs, targets, ex_log, parseVars, treeVars, mainVars>>

\* the helper exits: a process that has put on a queue joins the feeder
\* thread first, so it exits only when the whole message is in the pipe
WorkerExit ==
    /\ Current > 0
    /\ procs[Current].at = "flush"
    /\ pending = 0
    /\ procs' = [procs EXCEPT ![Current] = [at |-> "exited", exitcode |-> 0]]
    /\ UNCHANGED <<ex_pc, targets, pending, pipe, ex_log, parseVars, treeVars,
                   mainVars>>

\* the helper is killed by a signal; the command it started is not
HelperKilled ==
    /\ Current > 0
    /\ procs[Current].at # "exited"
    /\ procs' = [procs EXCEPT ![Current] = [at |-> "exited", exitcode |-> -9]]
    /\ pending' = 0
    /\ UNCHANGED <<ex_pc, targets, pipe, ex_log, parseVars, treeVars, mainVars>>

\* process.join() returns when the helper has exited
Join ==
    /\ ex_pc = "join"
    /\ procs[Current].at = "exited"
    /\ ex_pc' = "after_join"
    /\ UNCHANGED <<procs, targets, pending, pipe, ex_log, parseVars, treeVars,
                   mainVars>>

\* what the harness finds after the join of trial k: the helper's exit
\* code, whether the queue holds anything, and the message
Found(k) ==
    LET size == LoopVars(k).size
        i    == ImplIndex(LoopVars(k).impl.name)
        rc   == targets[k].returncode
    IN Outcome(procs[k].exitcode, pipe > 0, rc, GoodStdout(i, size),
               IF rc = 0 THEN <<>> ELSE ErrText)

\* the rest of execute_with_metrics (lines 179-183) and of
\* run_implementation, and the next pass of the loops of main
Finish ==
    /\ ex_pc = "after_join"
    /\ LET k    == Current
           size == LoopVars(k).size
           impl == LoopVars(k).impl
       IN \E oc \in {Found(k)} :
            \E r \in {run_implementation(impl, size, args.workers, oc)} :
               /\ ex_log' = Append(ex_log,
                     execute_with_metrics(command_for(impl, size, args.workers), oc))
               /\ ex_pc' = Propagate(r.exc, IF k = TotalTrials THEN "done" ELSE "loop")
    /\ UNCHANGED <<procs, targets, pending, pipe, parseVars, treeVars, mainVars>>

NextExec ==
    \/ Start
    \/ WorkerRun
    \/ WorkerSpawnFails
    \/ TargetExit
    \/ WorkerWait
    \/ WorkerPut
    \/ FeederWrite
    \/ WorkerExit
    \/ HelperKilled
    \/ Join
    \/ Finish

SpecExec == InitExec /\ [][NextExec]_vars

\* The harness and the helper keep running while they can take a step; a
\* target may run forever and nothing need ever kill a helper.  Finish is
\* enabled exactly when ex_pc = "after_join" and every Finish step leaves
\* that position, so its weak fairness is stated as the last conjunct.
SpecExecFair ==
    /\ SpecExec
    /\ WF_vars(Start)
    /\ WF_vars(WorkerRun)
    /\ WF_vars(WorkerWait)
    /\ WF_vars(WorkerPut)
    /\ WF_vars(FeederWrite)
    /\ WF_vars(WorkerExit)
    /\ WF_vars(Join)
    /\ []<>(ex_pc # "after_join")

\* C6: a text with exactly one line of the metrics grammar is accepted and
\* parse_metrics returns exactly the (size, solutions, nodes) that line embeds.
C6_SingleLineTriple ==
    (parsed # NotCalled /\ Len(QualifyingOf(stdout)) = 1)
        => parsed = Embedded(QualifyingOf(stdout)[1]).triple

\* C7: a text with several lines of the metrics grammar yields the triple of
\* the last of them, whatever other lines surround them.
C7_LastLineWins ==
    (parsed # NotCalled /\ Len(QualifyingOf(stdout)) >= 2)
        => LET q == QualifyingOf(stdout)
           IN parsed = Embedded(q[Len(q)]).triple

\* C8: a text with no line of the metrics grammar makes parse_metrics fail
\* with its metrics-extraction error; it returns no triple.
C8_NoLineFails ==
    (parsed # NotCalled /\ Len(QualifyingOf(stdout)) = 0)
        => parsed = ParseFailure


\* C3: when a preparer call has returned with the terminal artifact in place,
\* the next call of that preparer runs no external build command.
C3_SecondCallRunsNothing ==
    \A k \in 1..(Len(calls) - 1) :
        (/\ calls[k].exc = NoExc
         /\ ImplByName(calls[k].impl).artifact \in calls[k].post
         /\ calls[k + 1].impl = calls[k].impl)
            => calls[k + 1].cmds = <<>>

\* C4: a preparer called on a tree in which its terminal artifact exists
\* returns without running any build step, whatever else the tree holds.
C4_ArtifactPresentNoBuild ==
    \A k \in 1..Len(calls) :
        ImplByName(calls[k].impl).artifact \in calls[k].pre
            => (calls[k].cmds = <<>> /\ calls[k].exc = NoExc)

\* C1: once a run_implementation call has failed, it is the last trial ever
\* started (none follows, none is retried), main has failed, write_results
\* has not been called and the output path holds what it held before.
C1_FailureAbortsSweep ==
    \A k \in 1..Len(trials) :
        trials[k].exc # NoExc
            => /\ k = Len(trials)
               /\ pc = "failed"
               /\ err = trials[k].exc
               /\ write_args = <<>>
               /\ out_file = old_file

\* a trial failed while pairs of the sweep were still to run
C1_Witness ==
    /\ Len(trials) >= 2
    /\ Len(trials) < TotalTrials
    /\ trials[Len(trials)].exc # NoExc

\* C2: the table passed to write_results has one row per (size,
\* implementation) pair, sizes outside and implementations in registration
\* order inside, each row with the requested size and the nodes and
\* solutions extracted from the output of its own trial.
C2_TableRows ==
    \A w \in 1..Len(write_args) :
        LET table == write_args[w]
            n == Len(Implementations)
        IN /\ Len(table) = Len(args.sizes) * n
           /\ \A k \in 1..Len(table) :
                LET m == parse_metrics(trials[k].outcome.stdout)
                IN /\ trials[k].exc = NoExc
                   /\ table[k].size = args.sizes[((k - 1) \div n) + 1]
                   /\ table[k].implementation = Implementations[((k - 1) % n) + 1].name
                   /\ table[k].language = Implementations[((k - 1) % n) + 1].language
                   /\ trials[k].size = table[k].size
                   /\ trials[k].impl = table[k].implementation
                   /\ m.tag = "ok"
                   /\ table[k].nodes = m.nodes
                   /\ table[k].solutions = m.solutions

\* a table of two different sizes was passed to write_results
C2_Witness ==
    /\ write_args # <<>>
    /\ Len(args.sizes) = 2
    /\ args.sizes[1] # args.sizes[2]

\* C5: a write_results call that fails leaves at the output path either the
\* complete table or what the path held before the call.
C5_AllOrNothing ==
    (write_args # <<>> /\ err # NoExc)
        => \/ out_file = old_file
           \/ out_file = [exists |-> TRUE, lines |-> TableLines(write_args[1])]

\* C9: a trial whose extracted size differs from the requested size fails
\* with the size-mismatch error and adds no row; every row of the list
\* carries the size that was extracted from its own trial's output.
C9_SizeGuard ==
    /\ \A k \in 1..Len(trials) :
         LET t == trials[k]
         IN (t.metrics.tag = "ok" /\ t.metrics.size # t.size)
                => /\ t.exc = SizeMismatch(t.impl, t.metrics.size, t.size)
                   /\ Len(rows) < k
    /\ Len(rows) = Cardinality({k \in 1..Len(trials) : trials[k].exc = NoExc})
    /\ \A j \in 1..Len(rows) :
         /\ trials[j].metrics.tag = "ok"
         /\ rows[j].size = trials[j].metrics.size

\* a target exited 0 and reported a size that was not the requested one
C9_Witness ==
    \E k \in 1..Len(trials) :
        /\ trials[k].metrics.tag = "ok"
        /\ trials[k].metrics.size # trials[k].size
        /\ trials[k].metrics = parse_metrics(trials[k].outcome.stdout)

\* C10: a trial whose target exited non-zero fails with a CalledProcessError
\* carrying the exit code, the command, the captured stdout and stderr, and
\* nothing of its output is handed to parse_metrics.
C10_NonZeroExitNotParsed ==
    \A k \in 1..Len(trials) :
        LET t == trials[k]
            oc == t.outcome
        IN (oc.helper_exit = 0 /\ oc.queued /\ oc.returncode # 0)
              => /\ t.exc = CalledProcessError(
                                oc.returncode,
                                command_for(ImplByName(t.impl), t.size, args.workers),
                                oc.stdout, oc.stderr)
                 /\ t.parse_args = <<>>

\* a target exited non-zero after printing a well-formed metrics line
C10_Witness ==
    \E k \in 1..Len(trials) :
        /\ trials[k].outcome.queued
        /\ trials[k].outcome.returncode # 0
        /\ parse_metrics(trials[k].outcome.stdout).tag = "ok"

\* C11: a build command that exits non-zero is the last command its preparer
\* runs and that preparer call is the last one; no trial is ever started,
\* nothing is written, and the exception that reaches the __main__ handler
\* carries the argument vector of the failing command and its exit code.
C11_BuildFailureAborts ==
    \A k \in 1..Len(calls) :
        \A j \in 1..Len(calls[k].cmds) :
            calls[k].codes[j] # 0
                => /\ j = Len(calls[k].cmds)
                   /\ k = Len(calls)
                   /\ calls[k].exc = CalledProcessError(calls[k].codes[j],
                                                        calls[k].cmds[j].argv,
                                                        <<>>, <<>>)
                   /\ err = calls[k].exc
                   /\ pc = "failed"
                   /\ exit_status # Running
                   /\ trials = <<>>
                   /\ write_args = <<>>
                   /\ out_file = old_file

\* a build step failed after an earlier step of the same preparer and an
\* earlier preparer had succeeded, with preparers still to come
C11_Witness ==
    /\ Len(calls) >= 2
    /\ Len(calls) < Len(Implementations)
    /\ Len(calls[Len(calls)].cmds) >= 2
    /\ calls[Len(calls)].codes[Len(calls[Len(calls)].cmds)] # 0

\* C12: the harness exits zero exactly when every implementation was
\* prepared, every (size, implementation) pair produced a row and the table
\* of these rows was written to the output path.
C12_ExitZeroIff ==
    exit_status # Running
        => (exit_status = 0
              <=> /\ Len(calls) = Len(Implementations)
                  /\ \A k \in 1..Len(calls) : calls[k].exc = NoExc
                  /\ Len(trials) = TotalTrials
                  /\ \A k \in 1..Len(trials) : trials[k].exc = NoExc
                  /\ Len(rows) = TotalTrials
                  /\ out_file = [exists |-> TRUE, lines |-> TableLines(rows)])

\* C13: when the harness fails because a command exited non-zero, its own
\* exit status is that command's exit code, also for a command killed by a
\* signal; for every other failure it is the generic code 1.
C13_ExitCodeOfFailedCommand ==
    (exit_status # Running /\ err # NoExc)
        => /\ exit_status # 0
           /\ err.tag = "CalledProcessError" => exit_status = err.returncode
           /\ err.tag # "CalledProcessError" => exit_status = 1

\* C14: no preparer is called twice and none after the last implementation;
\* when the first trial starts, every implementation's preparer has been
\* called once, in registration order, and has returned.
C14_PreparedOnceBeforeSweep ==
    /\ Len(calls) <= Len(Implementations)
    /\ \A j, k \in 1..Len(calls) : calls[j].impl = calls[k].impl => j = k
    /\ (trials # <<>> \/ pc \in {"sweep", "write", "done"})
          => /\ Len(calls) = Len(Implementations)
             /\ \A k \in 1..Len(calls) :
                  /\ calls[k].impl = Implementations[k].name
                  /\ calls[k].exc = NoExc

\* a sweep of two sizes has run to its end
C14_Witness ==
    /\ pc = "done"
    /\ Len(args.sizes) = 2
    /\ Len(trials) = 2 * Len(Implementations)
    /\ Len(calls) = Len(Implementations)

\* C15: the environment of every trial is the environment the harness was
\* started in with the extra_env of that trial's implementation, and of no
\* other, merged on top; os.environ itself stays what it was.
C15_EnvironmentScoped ==
    /\ environ = old_environ
    /\ \A k \in 1..Len(trials) :
         LET env   == trials[k].env
             extra == extra_env(trials[k].impl, old_environ)
         IN /\ DOMAIN env = DOMAIN old_environ \cup DOMAIN extra
            /\ \A v \in DOMAIN env :
                 env[v] = IF v \in DOMAIN extra THEN extra[v] ELSE old_environ[v]

\* a trial of an implementation without overrides ran after the trials of
\* the two implementations that override LD_LIBRARY_PATH
C15_Witness ==
    /\ Len(trials) >= 3
    /\ trials[1].env # old_environ
    /\ trials[2].env # trials[1].env
    /\ extra_env(trials[3].impl, old_environ) = NoEnv

\* C16: at every moment at most one helper process and at most one target
\* command are running, and every helper but the one started last has
\* exited, and so has the target it ran.
C16_StrictlySequential ==
    /\ Cardinality({k \in 1..Len(procs) : procs[k].at # "exited"}) <= 1
    /\ Cardinality({k \in 1..Len(targets) : targets[k].state = "running"}) <= 1
    /\ \A k \in 1..(Len(procs) - 1) :
         /\ procs[k].at = "exited"
         /\ targets[k].state # "running"

\* the target of a second trial is running
C16_Witness ==
    /\ Len(procs) >= 2
    /\ targets[1].state = "exited"
    /\ targets[Len(targets)].state = "running"

\* C17: whenever the target command of a trial has exited,
\* execute_with_metrics eventually returns or raises for that trial, whatever
\* the size of the message.
C17_ExecuteReturns ==
    (Current > 0 /\ targets[Current].state = "exited" /\ Len(ex_log) < Current)
        ~> (Len(ex_log) = Current)

\* C18: a helper that exited with a non-zero code, or without a message in
\* the queue, makes execute_with_metrics raise one of its two "Measurement
\* helper" errors; a helper that exited with 0 and a message makes it return
\* the message, with the target's exit code in it also when that is non-zero.
C18_ApparatusFaultsApart ==
    \A k \in 1..Len(ex_log) :
        IF procs[k].exitcode # 0 \/ targets[k].state # "exited"
        THEN ex_log[k].exc \in {RuntimeError("Measurement helper failed"),
                                RuntimeError("Measurement helper returned no data")}
        ELSE /\ ex_log[k].exc = NoExc
             /\ ex_log[k].result.returncode = targets[k].returncode
             /\ ex_log[k].result.cmd =
                    command_for(LoopVars(k).impl, LoopVars(k).size, args.workers)

\* after a trial that went well, execute_with_metrics returned the record
\* of a target that exited non-zero
C18_Witness ==
    /\ Len(ex_log) >= 2
    /\ ex_log[Len(ex_log)].exc = NoExc
    /\ ex_log[Len(ex_log)].result.returncode # 0

\* C19: when a preparer call returns without raising, the artifact the
\* implementation's command runs is in the tree, and so are the libraries
\* that preparer is responsible for.
C19_SuccessMeansArtifact ==
    \A k \in 1..Len(calls) :
        calls[k].exc = NoExc
            => /\ ImplByName(calls[k].impl).artifact \in calls[k].post
               /\ Prerequisites(calls[k].impl) \subseteq calls[k].post

\* a preparer that found its artifact missing built it in two or more steps
\* and returned
C19_Witness ==
    \E k \in 1..Len(calls) :
        /\ calls[k].exc = NoExc
        /\ ImplByName(calls[k].impl).artifact \notin calls[k].pre
        /\ Len(calls[k].cmds) >= 2

====
